---- MODULE Spec2Model ----
(***************************************************************************)
(* The notebook 4-performance-optimization.ipynb as a state machine.  The  *)
(* kernel runs the statements of the code cells top to bottom; every       *)
(* statement is a call into the dataframe library, whose lazy graphs,      *)
(* persisted collections and cluster tasks are the state.                  *)
(***************************************************************************)
EXTENDS Integers, Sequences, FiniteSets, TLC

\* ------------------------------------------------------------------ bounds
\* largest number of rows in the remote dataset
MaxRows == 4
\* number of files of the remote dataset, one partition each
NFiles == 3
\* in-memory size in MiB of one source partition with object strings and
\* with pyarrow strings (the notebook reports ~10 MB; scaled up so that
\* NFiles partitions already span more than one 100 MiB partition)
ObjectPartMiB == 40
ArrowPartMiB == 20

\* -------------------------------------------------------- program literals
\* pandas' missing value
NaN == 0 - 999
\* ddf.repartition("100MiB") and ddf.repartition("100MB"), in MiB
Target100MiB == 100
Target100MB == 95
\* lower_bound = 0
lower_bound == 0
\* the service_names dict of the sanitization cells
service_names ==
  [HV0002 |-> "juno", HV0005 |-> "lyft", HV0003 |-> "uber", HV0004 |-> "via"]

\* --------------------------------------------------------------- the data
\* the values the four columns used by the notebook take in the model
RowList ==
  << [trip_time |-> 1,     airport_fee |-> NaN, hvfhs_license_num |-> "HV0002", tips |-> 0],
     [trip_time |-> 1,     airport_fee |-> 2,   hvfhs_license_num |-> "HV0005", tips |-> 3],
     [trip_time |-> 0,     airport_fee |-> NaN, hvfhs_license_num |-> "HV0003", tips |-> 3],
     [trip_time |-> 9,     airport_fee |-> 2,   hvfhs_license_num |-> "HV0004", tips |-> 1],
     [trip_time |-> 0 - 4, airport_fee |-> NaN, hvfhs_license_num |-> "HV0003", tips |-> 0] >>

\* the datasets of 1..MaxRows rows.  No call of the notebook depends on the
\* order of the rows (nothing sorts, nothing takes a head), so one order
\* stands for every permutation of the same rows
Datasets ==
  UNION { { [i \in 1..n |-> RowList[f[i]]] :
              f \in { g \in [1..n -> 1..Len(RowList)] :
                        \A i \in 1..(n - 1) : g[i] <= g[i + 1] } } :
          n \in 1..MaxRows }

\* the frame the read layer yields: the stored rows with their index
WithIndex(data) == [i \in 1..Len(data) |-> [idx |-> i] @@ data[i]]

\* ----------------------------------------------------- sequence utilities
\* the rows of t that satisfy keep, in their order (a boolean-mask selection)
SelectRows(t, keep(_)) ==
  LET S == {i \in 1..Len(t) : keep(t[i])}
  IN [j \in 1..Cardinality(S) |->
        t[CHOOSE i \in S : Cardinality({k \in S : k <= i}) = j]]

RECURSIVE SumSeq(_)
SumSeq(s) == IF s = <<>> THEN 0 ELSE Head(s) + SumSeq(Tail(s))

Count(t, p(_)) == Cardinality({i \in 1..Len(t) : p(t[i])})

\* the k-th smallest of the non-empty sequence of integers vals, 1 <= k <= Len
KthSmallest(vals, k) ==
  CHOOSE v \in {vals[i] : i \in 1..Len(vals)} :
    /\ Cardinality({i \in 1..Len(vals) : vals[i] < v}) < k
    /\ Cardinality({i \in 1..Len(vals) : vals[i] <= v}) >= k

\* ----------------------------------------------- sanitization, per layer
\* ddf["trip_time"].quantile(0.75): linear interpolation at position
\* 0.75 * (n - 1) of the sorted non-null values; four times the quantile,
\* NaN for no values
Quantile75x4(t) ==
  LET rows == SelectRows(t, LAMBDA r : r.trip_time # NaN)
      vals == [i \in 1..Len(rows) |-> rows[i].trip_time]
      n    == Len(vals)
      lo   == (3 * (n - 1)) \div 4
      frac == (3 * (n - 1)) % 4
      vlo  == KthSmallest(vals, lo + 1)
      vhi  == KthSmallest(vals, IF lo + 2 <= n THEN lo + 2 ELSE n)
  IN IF n = 0 THEN NaN ELSE 4 * vlo + frac * (vhi - vlo)

\* upper_bound = Q3 + (1.5 * (Q3 - lower_bound)); eight times the bound
UpperBoundx8(q3x4) == 2 * q3x4 + 3 * (q3x4 - 4 * lower_bound)

\* the selection with a strict lower comparison, ddf["trip_time"] > lower_bound
KeepTripTimeStrict(r, q3x4) ==
  /\ r.trip_time # NaN
  /\ q3x4 # NaN
  /\ r.trip_time > lower_bound
  /\ 8 * r.trip_time <= UpperBoundx8(q3x4)

\* (ddf["trip_time"] >= lower_bound) & (ddf["trip_time"] <= upper_bound);
\* a comparison with a missing value is False
KeepTripTime(r, q3x4) ==
  /\ r.trip_time # NaN
  /\ q3x4 # NaN
  /\ r.trip_time >= lower_bound
  /\ 8 * r.trip_time <= UpperBoundx8(q3x4)

LocTripTime(t) ==
  LET q3x4 == Quantile75x4(t)
  IN SelectRows(t, LAMBDA r : KeepTripTime(r, q3x4))

\* the assignment without the fillna: the column is written back as it is
FillnaSkip(t) == t

\* ddf["airport_fee"].fillna(0)
Fillna(t) ==
  [i \in 1..Len(t) |->
     [t[i] EXCEPT !.airport_fee = IF @ = NaN THEN 0 ELSE @]]

\* the dict with the companies of two codes exchanged
MapNameSwapped(code) ==
  IF code \in DOMAIN service_names
  THEN [service_names EXCEPT !.HV0005 = "uber", !.HV0003 = "lyft"][code]
  ELSE "NaN"

\* ddf["hvfhs_license_num"].map(service_names): a code that is no key of
\* the dict maps to a missing value
MapName(code) ==
  IF code \in DOMAIN service_names THEN service_names[code] ELSE "NaN"

MapServiceNames(t) ==
  [i \in 1..Len(t) |-> [service_names |-> MapName(t[i].hvfhs_license_num)] @@ t[i]]

\* ddf.drop(columns=["hvfhs_license_num"])
DropLicense(t) ==
  [i \in 1..Len(t) |->
     [c \in (DOMAIN t[i]) \ {"hvfhs_license_num"} |-> t[i][c]]]

\* what one layer of a graph does to the rows of its input frame; the layers
\* on the datetime columns, repartition and astype leave the four modelled
\* columns as they are
ApplyLayer(layer, t) ==
  CASE layer = "fillna"            -> Fillna(t)
    [] layer = "loc_trip_time"     -> LocTripTime(t)
    [] layer = "map_service_names" -> MapServiceNames(t)
    [] layer = "drop_license"      -> DropLicense(t)
    [] OTHER                       -> t

RECURSIVE Eval(_, _)
Eval(layers, t) ==
  IF layers = <<>> THEN t ELSE Eval(Tail(layers), ApplyLayer(Head(layers), t))

\* ------------------------------------------------------------ the analyses
\* (ddf.tips > 0).mean(): the mean of a boolean column, the number of True
\* over the number of rows, as the pair <<numerator, denominator>>
FracTipped(t) == <<Count(t, LAMBDA r : r.tips # NaN /\ r.tips > 0), Len(t)>>

\* (ddf.tips != 0).mean(); NaN != 0 is True
FracNonZero(t) == <<Count(t, LAMBDA r : r.tips # 0), Len(t)>>

\* ddf.loc[lambda x: x.tips > 0]
LocTipped(t) == SelectRows(t, LAMBDA r : r.tips # NaN /\ r.tips > 0)

\* the keys of .groupby("service_names"): rows with a missing key are dropped
GroupKeys(t) == {t[i].service_names : i \in 1..Len(t)} \ {"NaN"}

TipsOf(t, g) ==
  LET rows == SelectRows(t, LAMBDA r : r.service_names = g)
  IN [i \in 1..Len(rows) |-> rows[i].tips]

\* .groupby("service_names").tips.sum()
GroupSum(t) ==
  LET tipped == LocTipped(t)
  IN [g \in GroupKeys(tipped) |-> SumSeq(TipsOf(tipped, g))]

\* .groupby("service_names").tips.mean(), each mean as <<sum, count>>
GroupMean(t) ==
  LET tipped == LocTipped(t)
  IN [g \in GroupKeys(tipped) |->
        <<SumSeq(TipsOf(tipped, g)), Len(TipsOf(tipped, g))>>]

\* the layers of the graph each analysis adds on top of ddf; ddf.tips,
\* ddf.tips > 0 and the .loc selection have the same keys in every graph
\* built on the same ddf
FracGraph == {"getitem_tips", "gt_0", "mean"}
SumGraph  == {"getitem_tips", "gt_0", "loc_tipped", "groupby_tips_sum"}
MeanGraph == {"getitem_tips", "gt_0", "loc_tipped", "groupby_tips_mean"}
NeGraph   == {"getitem_tips", "ne_0", "mean"}
BytesGraph == {"partitions_getitem"}
UsageGraph == {"total_mem_usage"}

AnalysisLayers == FracGraph \cup SumGraph \cup MeanGraph \cup NeGraph
                    \cup BytesGraph \cup UsageGraph

\* the layers of the graphs that read and sanitize ddf
UpstreamLayers ==
  { "read_csv", "read_parquet", "to_datetime_on_scene", "to_datetime_pickup",
    "assign", "drop_datetimes", "fillna", "loc_trip_time",
    "map_service_names", "drop_license", "repartition", "astype" }

AllLayers == UpstreamLayers \cup AnalysisLayers

\* ------------------------------------------------------------ the schemas
\* what dd.read_csv infers, with the dtype override for wav_match_flag
CsvDtypes ==
  [ hvfhs_license_num |-> "object", dispatching_base_num |-> "object",
    originating_base_num |-> "object", on_scene_datetime |-> "object",
    pickup_datetime |-> "object", trip_time |-> "int64", tips |-> "float64",
    airport_fee |-> "float64", wav_match_flag |-> "category" ]

\* what dd.read_parquet finds stored: the times are stored as datetimes
ParquetDtypes ==
  [ hvfhs_license_num |-> "object", dispatching_base_num |-> "object",
    originating_base_num |-> "object", on_scene_datetime |-> "datetime64[ns]",
    pickup_datetime |-> "datetime64[ns]", trip_time |-> "int64",
    tips |-> "float64", airport_fee |-> "float64", wav_match_flag |-> "object" ]

WithColumns(dt, new) == new @@ dt
WithoutColumns(dt, cols) == [c \in (DOMAIN dt) \ cols |-> dt[c]]

\* ------------------------------------------------------------ the notebook
Stmt(op, arg, cell, line, uses, binds) ==
  [op |-> op, arg |-> arg, cell |-> cell, line |-> line, uses |-> uses, binds |-> binds]

\* the unpack and sanitization statements, which the CSV and the Parquet
\* pipeline both run (in the cells c1 and c2)
Sanitize(c1, c2, l1, l2, l3, l4, l5, l6, l7, l8, l9, l10) ==
  << Stmt("assign", "", c1, l1, {"ddf"}, {"ddf"}),
     Stmt("drop_datetimes", "", c1, l2, {"ddf"}, {"ddf"}),
     Stmt("fillna", "", c2, l3, {"ddf"}, {}),
     Stmt("set_lower_bound", "", c2, l4, {}, {"lower_bound"}),
     Stmt("quantile", "", c2, l5, {"ddf"}, {"Q3"}),
     Stmt("upper_bound", "", c2, l6, {"Q3", "lower_bound"}, {"upper_bound"}),
     Stmt("loc", "", c2, l7, {"ddf", "lower_bound", "upper_bound"}, {"ddf"}),
     Stmt("set_service_names", "", c2, l8, {}, {"service_names"}),
     Stmt("map", "", c2, l9, {"ddf", "service_names"}, {}),
     Stmt("drop_license", "", c2, l10, {"ddf"}, {"ddf"}) >>

Analyses(c, l1, l2, l3) ==
  << Stmt("compute_frac", "", c, l1, {"ddf"}, {}),
     Stmt("compute_sum", "", c + 1, l2, {"ddf"}, {}),
     Stmt("compute_mean", "", c + 2, l3, {"ddf"}, {}) >>

PersistWait(c1, l1, c2, l2) ==
  << Stmt("persist", "", c1, l1, {"ddf"}, {"ddf"}),
     Stmt("wait", "", c2, l2, {"wait", "ddf"}, {}) >>

\* the statements of the code cells, in order; cell is the ordinal of the
\* code cell and line the line of the statement in the .ipynb file
Notebook ==
  << Stmt("import", "coiled", 1, 39, {}, {"coiled"}),
     Stmt("cluster", "", 1, 41, {"coiled"}, {"cluster"}),
     Stmt("get_client", "", 1, 45, {"cluster"}, {"client"}),
     Stmt("show", "client", 2, 65, {"client"}, {}),
     Stmt("import", "dd", 3, 87, {}, {"dd"}),
     Stmt("read_csv", "", 3, 89, {"dd"}, {"ddf"}),
     Stmt("dtypes", "", 4, 104, {"ddf"}, {}),
     Stmt("to_datetime", "on_scene_datetime", 5, 127, {"dd", "ddf"}, {}),
     Stmt("to_datetime", "pickup_datetime", 5, 128, {"dd", "ddf"}, {}) >>
  \o Sanitize(5, 6, 131, 137, 164, 167, 168, 169, 170, 172, 179, 180)
  \o Analyses(7, 206, 228, 242)
  \o << Stmt("persist", "", 10, 268, {"ddf"}, {"ddf"}),
        Stmt("import", "wait", 11, 282, {}, {"wait"}),
        Stmt("wait", "", 11, 283, {"wait", "ddf"}, {}) >>
  \o Analyses(12, 305, 319, 333)
  \o << Stmt("lazy_frac", "", 15, 370, {"ddf"}, {"trip_frac"}),
        Stmt("lazy_sum", "", 15, 371, {"ddf"}, {"gb_sum"}),
        Stmt("lazy_mean", "", 15, 372, {"ddf"}, {"gb_mean"}),
        Stmt("import", "dask", 16, 396, {}, {"dask"}),
        Stmt("dask_compute", "", 16, 398, {"dask", "trip_frac", "gb_sum", "gb_mean"},
             {"trip_frac", "gb_sum", "gb_mean"}),
        Stmt("import", "dd", 17, 428, {}, {"dd"}),
        Stmt("read_parquet", "", 17, 435, {"dd"}, {"ddf"}),
        Stmt("dtypes", "", 18, 447, {"ddf"}, {}) >>
  \o Sanitize(19, 19, 474, 480, 483, 486, 487, 488, 489, 491, 498, 499)
  \o << Stmt("persist", "", 20, 519, {"ddf"}, {"ddf"}),
        Stmt("import", "wait", 21, 533, {}, {"wait"}),
        Stmt("wait", "", 21, 534, {"wait", "ddf"}, {}) >>
  \o Analyses(22, 556, 570, 584)
  \o << Stmt("import", "dask", 25, 617, {}, {"dask"}),
        Stmt("partition_bytes", 0, 25, 618, {"dask", "ddf"}, {}),
        Stmt("repartition", Target100MiB, 26, 640, {"ddf"}, {"ddf"}) >>
  \o PersistWait(26, 641, 26, 642)
  \o << Stmt("partition_bytes", 0, 27, 664, {"dask", "ddf"}, {}) >>
  \o Analyses(28, 688, 702, 716)
  \o << Stmt("dtypes", "", 31, 749, {"ddf"}, {}),
        Stmt("astype", "", 32, 773, {"ddf"}, {"ddf"}) >>
  \o PersistWait(32, 779, 32, 780)
  \o << Stmt("dtypes", "", 33, 792, {"ddf"}, {}),
        Stmt("partition_bytes", 1, 34, 812, {"dask", "ddf"}, {}),
        Stmt("repartition", Target100MB, 35, 834, {"ddf"}, {"ddf"}) >>
  \o PersistWait(35, 835, 35, 836)
  \o << Stmt("compute_ne", "", 36, 858, {"ddf"}, {}),
        Stmt("compute_sum", "", 37, 872, {"ddf"}, {}),
        Stmt("compute_mean", "", 38, 886, {"ddf"}, {}) >>

NStmts == Len(Notebook)

\* the statements that talk to the cluster or to remote storage
ExternalOps ==
  { "cluster", "get_client", "read_csv", "read_parquet", "persist", "wait",
    "compute_frac", "compute_sum", "compute_mean", "compute_ne",
    "dask_compute", "partition_bytes", "repartition" }

\* --------------------------------------------------------------- the state
VARIABLES
  data,    \* the rows of the remote dataset (stored as CSV and as Parquet)
  pc,      \* index in Notebook of the statement the kernel runs next
  err,     \* TRUE once a statement has raised: the kernel has stopped
  names,   \* the names bound in the kernel's namespace
  ddf,     \* the dataframe bound to the name ddf
  lazy,    \* the bindings of trip_frac, gb_sum and gb_mean
  out,     \* what the last expression statement displayed
  store,   \* the persisted collections on the cluster, in order of persist
  runs,    \* per layer, the number of its tasks the cluster has executed
  graphs   \* the graphs submitted to the scheduler, in order

vars == <<data, pc, err, names, ddf, lazy, out, store, runs, graphs>>

Range(s) == {s[i] : i \in 1..Len(s)}

\* a dataframe: the persisted collection its graph starts from (0: none, the
\* graph starts with a read layer), the layers of its graph not yet
\* materialized, all layers applied since the read, its meta and, per
\* partition, the number of source partitions it holds
EmptyHandle ==
  [base |-> 0, layers |-> <<>>, lineage |-> <<>>,
   dtypes |-> [c \in {} |-> ""], parts |-> <<>>]

Unbound == [kind |-> "unbound"]

NParts(h) == Len(h.parts)

\* the frame a graph starts from, and the frame a dataframe denotes
BaseRows(h) == IF h.base = 0 THEN WithIndex(data) ELSE store[h.base].rows
Table(h) == Eval(h.layers, BaseRows(h))

\* a lazy operation on a dataframe: one more layer, new meta, no execution
AddLayer(h, layer, dtypes) ==
  [h EXCEPT !.layers = Append(@, layer), !.lineage = Append(@, layer),
            !.dtypes = dtypes]

\* the partitions need of the collection under h are in memory / one failed
InMemory(h, need) ==
  IF h.base = 0 THEN TRUE
  ELSE \A i \in need : store[h.base].status[i] = "memory"

AllParts(h) == 1..NParts(h)

\* executing a graph from the source: every layer applied since the read
\* runs again, whatever is persisted
RunGraphFromSource(h, graph, need) ==
  [l \in AllLayers |->
     runs[l] + (IF l \in Range(h.lineage) \cup graph THEN Cardinality(need) ELSE 0)]

\* executing a graph on top of h: every layer of h's graph and of the
\* analysis runs one task per partition in need
RunGraph(h, graph, need) ==
  [l \in AllLayers |->
     runs[l] + (IF l \in Range(h.layers) \cup graph THEN Cardinality(need) ELSE 0)]

\* sending the scheduler every layer applied since the read
SubmittedLineage(h, graph, need) ==
  [line |-> Notebook[pc].line, call |-> Notebook[pc].op,
   layers |-> Range(h.lineage) \cup graph,
   ntasks |-> Cardinality(Range(h.lineage) \cup graph) * Cardinality(need),
   base |-> h.base]

\* what the scheduler is sent for a graph on top of h
Submitted(h, graph, need) ==
  [line |-> Notebook[pc].line, call |-> Notebook[pc].op,
   layers |-> Range(h.layers) \cup graph,
   ntasks |-> Cardinality(Range(h.layers) \cup graph) * Cardinality(need),
   base |-> h.base]

Init ==
  /\ data \in Datasets
  /\ pc = 1
  /\ err = FALSE
  /\ names = {}
  /\ ddf = EmptyHandle
  /\ lazy = [trip_frac |-> Unbound, gb_sum |-> Unbound, gb_mean |-> Unbound]
  /\ out = [kind |-> "none"]
  /\ store = <<>>
  /\ runs = [l \in AllLayers |-> 0]
  /\ graphs = <<>>

\* ------------------------------------------------------ the kernel's steps
\* in-memory size in MiB of one source partition of h
PartMiB(h) ==
  IF "dispatching_base_num" \in DOMAIN h.dtypes
       /\ h.dtypes["dispatching_base_num"] = "string[pyarrow]"
  THEN ArrowPartMiB ELSE ObjectPartMiB

\* what the statement st needs of ddf = h to run without raising
Precond(st, h) ==
  CASE st.op = "to_datetime"    -> st.arg \in DOMAIN h.dtypes
    [] st.op = "assign"         ->
         /\ {"on_scene_datetime", "pickup_datetime"} \subseteq DOMAIN h.dtypes
         /\ h.dtypes["pickup_datetime"] = "datetime64[ns]"
    [] st.op = "drop_datetimes" ->
         {"on_scene_datetime", "pickup_datetime"} \subseteq DOMAIN h.dtypes
    [] st.op = "fillna"         -> "airport_fee" \in DOMAIN h.dtypes
    [] st.op \in {"quantile", "loc"} -> "trip_time" \in DOMAIN h.dtypes
    [] st.op \in {"map", "drop_license"} -> "hvfhs_license_num" \in DOMAIN h.dtypes
    [] st.op \in {"compute_frac", "compute_ne", "lazy_frac"} -> "tips" \in DOMAIN h.dtypes
    [] st.op \in {"compute_sum", "compute_mean", "lazy_sum", "lazy_mean"} ->
         {"tips", "service_names"} \subseteq DOMAIN h.dtypes
    [] st.op = "partition_bytes" -> st.arg + 1 <= NParts(h)
    [] st.op = "repartition"    ->
         \A i \in AllParts(h) : h.parts[i] * PartMiB(h) <= st.arg
    [] st.op = "astype"         ->
         {"service_names", "dispatching_base_num", "originating_base_num"}
           \subseteq DOMAIN h.dtypes
    [] OTHER -> TRUE

\* a kernel that goes on with the next statement after a statement raised
AtAfterError(op) ==
  /\ pc <= NStmts
  /\ Notebook[pc].op = op
  /\ Notebook[pc].uses \subseteq names
  /\ Precond(Notebook[pc], ddf)

\* the kernel is about to run a statement op that can run: the kernel has
\* not stopped, the names the statement uses are bound
At(op) ==
  /\ ~err
  /\ pc <= NStmts
  /\ Notebook[pc].op = op
  /\ Notebook[pc].uses \subseteq names
  /\ Precond(Notebook[pc], ddf)

\* a statement that returns without its names being kept in the namespace
AdvanceNoBind ==
  /\ pc' = pc + 1
  /\ names' = names

\* the statement returns: its names are bound and the next statement is next
Advance ==
  /\ pc' = pc + 1
  /\ names' = names \cup Notebook[pc].binds

\* the runs after a call that executes the graph it builds
Eager(h) == RunGraph(h, {}, AllParts(h))

\* the runs after a call that only builds a graph: nothing is executed
Deferred(h) == runs

\* a lazy call binds ddf to the new dataframe h
LazyCall(h) ==
  /\ Advance
  /\ ddf' = h
  /\ runs' = Deferred(h)
  /\ UNCHANGED <<data, err, lazy, out, store, graphs>>

\* a statement that touches neither ddf nor the cluster
NameOnly ==
  /\ Advance
  /\ UNCHANGED <<data, err, ddf, lazy, out, store, runs, graphs>>

\* import coiled / dask.dataframe as dd / dask; from distributed import wait
ImportStmt == At("import") /\ NameOnly

\* cluster = coiled.Cluster(n_workers=20, region="us-east-2")
ClusterStmt == At("cluster") /\ NameOnly

\* client = cluster.get_client()
GetClientStmt == At("get_client") /\ NameOnly

\* client
ShowStmt ==
  /\ At("show")
  /\ Advance
  /\ out' = [kind |-> "repr", val |-> Notebook[pc].arg]
  /\ UNCHANGED <<data, err, ddf, lazy, store, runs, graphs>>

\* ddf = dd.read_csv(".../csv-0.2-10/*", dtype={"wav_match_flag": "category"})
ReadCsv ==
  [base |-> 0, layers |-> <<"read_csv">>, lineage |-> <<"read_csv">>,
   dtypes |-> CsvDtypes, parts |-> [i \in 1..NFiles |-> 1]]

ReadCsvStmt == At("read_csv") /\ LazyCall(ReadCsv)

\* ddf = dd.read_parquet(".../parquet-0.2-10/")
ReadParquet ==
  [base |-> 0, layers |-> <<"read_parquet">>, lineage |-> <<"read_parquet">>,
   dtypes |-> ParquetDtypes, parts |-> [i \in 1..NFiles |-> 1]]

ReadParquetStmt == At("read_parquet") /\ LazyCall(ReadParquet)

\* ddf.dtypes
DtypesStmt ==
  /\ At("dtypes")
  /\ Advance
  /\ out' = [kind |-> "dtypes", val |-> ddf.dtypes]
  /\ UNCHANGED <<data, err, ddf, lazy, store, runs, graphs>>

\* ddf[col] = dd.to_datetime(ddf[col], format="mixed")
ToDatetime(h, col) ==
  AddLayer(h, IF col = "on_scene_datetime" THEN "to_datetime_on_scene"
              ELSE "to_datetime_pickup",
           [h.dtypes EXCEPT ![col] = "datetime64[ns]"])

ToDatetimeStmt == At("to_datetime") /\ LazyCall(ToDatetime(ddf, Notebook[pc].arg))

\* ddf = ddf.assign(accessible_vehicle=ddf.on_scene_datetime.isnull(),
\*                  pickup_month=ddf.pickup_datetime.dt.month, ...)
Assign(h) ==
  AddLayer(h, "assign",
           WithColumns(h.dtypes,
             [accessible_vehicle |-> "bool", pickup_month |-> "int32",
              pickup_dow |-> "int32", pickup_hour |-> "int32"]))

AssignStmt == At("assign") /\ LazyCall(Assign(ddf))

\* ddf = ddf.drop(columns=["on_scene_datetime", "pickup_datetime"])
DropDatetimes(h) ==
  AddLayer(h, "drop_datetimes",
           WithoutColumns(h.dtypes, {"on_scene_datetime", "pickup_datetime"}))

DropDatetimesStmt == At("drop_datetimes") /\ LazyCall(DropDatetimes(ddf))

\* ddf["airport_fee"] = ddf["airport_fee"].fillna(0)
FillnaStmt == At("fillna") /\ LazyCall(AddLayer(ddf, "fillna", ddf.dtypes))

\* lower_bound = 0
LowerBoundStmt == At("set_lower_bound") /\ NameOnly

\* Q3 = ddf["trip_time"].quantile(0.75): a lazy scalar on the graph of ddf
QuantileStmt == At("quantile") /\ LazyCall(ddf)

\* upper_bound = Q3 + (1.5 * (Q3 - lower_bound)): lazy as well
UpperBoundStmt == At("upper_bound") /\ NameOnly

\* ddf = ddf.loc[(ddf["trip_time"] >= lower_bound) & (ddf["trip_time"] <= upper_bound)];
\* the layer evaluates the quantile on the frame it filters, which is the
\* frame Q3 was built on
LocStmt == At("loc") /\ LazyCall(AddLayer(ddf, "loc_trip_time", ddf.dtypes))

\* service_names = {"HV0002": "juno", ...}
ServiceNamesStmt == At("set_service_names") /\ NameOnly

\* ddf["service_names"] = ddf["hvfhs_license_num"].map(service_names)
MapStmt ==
  /\ At("map")
  /\ LazyCall(AddLayer(ddf, "map_service_names",
                       WithColumns(ddf.dtypes, [service_names |-> "object"])))

\* ddf = ddf.drop(columns=["hvfhs_license_num"])
DropLicenseStmt ==
  /\ At("drop_license")
  /\ LazyCall(AddLayer(ddf, "drop_license",
                       WithoutColumns(ddf.dtypes, {"hvfhs_license_num"})))

\* ddf = ddf.astype({"service_names": "string[pyarrow]", ...})
Astype(h) ==
  AddLayer(h, "astype",
           [c \in DOMAIN h.dtypes |->
              IF c \in {"service_names", "dispatching_base_num", "originating_base_num"}
              THEN "string[pyarrow]" ELSE h.dtypes[c]])

AstypeStmt == At("astype") /\ LazyCall(Astype(ddf))

\* -------------------------------------------------- calls that execute
\* expr.compute() on a graph built on ddf: blocks until the partitions it
\* needs are in memory, runs the graph and displays the result
Compute(graph, need, result) ==
  /\ InMemory(ddf, need)
  /\ Advance
  /\ out' = result
  /\ runs' = RunGraph(ddf, graph, need)
  /\ graphs' = Append(graphs, Submitted(ddf, graph, need))
  /\ UNCHANGED <<data, err, ddf, lazy, store>>

\* (ddf.tips > 0).mean().compute()
ComputeFracStmt ==
  /\ At("compute_frac")
  /\ Compute(FracGraph, AllParts(ddf), [kind |-> "frac", val |-> FracTipped(Table(ddf))])

\* ddf.loc[lambda x: x.tips > 0].groupby("service_names").tips.sum().compute()
ComputeSumStmt ==
  /\ At("compute_sum")
  /\ Compute(SumGraph, AllParts(ddf), [kind |-> "sum", val |-> GroupSum(Table(ddf))])

\* ddf.loc[lambda x: x.tips > 0].groupby("service_names").tips.mean().compute()
ComputeMeanStmt ==
  /\ At("compute_mean")
  /\ Compute(MeanGraph, AllParts(ddf), [kind |-> "mean", val |-> GroupMean(Table(ddf))])

\* (ddf.tips != 0).mean().compute()
ComputeNeStmt ==
  /\ At("compute_ne")
  /\ Compute(NeGraph, AllParts(ddf), [kind |-> "frac", val |-> FracNonZero(Table(ddf))])

\* dask.utils.format_bytes(ddf.partitions[i].compute().memory_usage(deep=True).sum())
PartitionBytesStmt ==
  /\ At("partition_bytes")
  /\ Compute(BytesGraph, {Notebook[pc].arg + 1},
             [kind |-> "bytes", val |-> ddf.parts[Notebook[pc].arg + 1] * PartMiB(ddf)])

\* ddf.persist(): the dataframe whose graph is the futures of the collection
\* k, which the cluster builds from the graph of h
Persist(h, k) == [h EXCEPT !.base = k, !.layers = <<>>]

\* ddf = ddf.persist(): submits the graph and returns at once
PersistStmt ==
  /\ At("persist")
  /\ Advance
  /\ store' = Append(store,
       [status |-> [i \in AllParts(ddf) |-> "waiting"], layers |-> ddf.layers,
        base |-> ddf.base, rows |-> Table(ddf), dtypes |-> ddf.dtypes])
  /\ ddf' = Persist(ddf, Len(store) + 1)
  /\ graphs' = Append(graphs, Submitted(ddf, {}, AllParts(ddf)))
  /\ UNCHANGED <<data, err, lazy, out, runs>>

\* wait(fs, return_when="FIRST_COMPLETED"): returns once one future of fs
\* has finished
WaitDoneFirst(h) ==
  IF h.base = 0 THEN TRUE
  ELSE \E i \in AllParts(h) : store[h.base].status[i] \in {"memory", "erred"}

\* wait(fs): returns once every future of fs has finished, in memory or
\* with an error
WaitDone(h) ==
  IF h.base = 0 THEN TRUE
  ELSE \A i \in AllParts(h) : store[h.base].status[i] \in {"memory", "erred"}

\* wait(ddf);
WaitStmt ==
  /\ At("wait")
  /\ WaitDone(ddf)
  /\ Advance
  /\ UNCHANGED <<data, err, ddf, lazy, out, store, runs, graphs>>

\* trip_frac = (ddf.tips > 0).mean(), gb_sum = ..., gb_mean = ...: a lazy
\* result is the graph of an analysis on the ddf of that moment
Lazy(of, graph, h) == [kind |-> "lazy", of |-> of, graph |-> graph, h |-> h]

LazyFracStmt ==
  /\ At("lazy_frac")
  /\ Advance
  /\ lazy' = [lazy EXCEPT !.trip_frac = Lazy("frac", FracGraph, ddf)]
  /\ UNCHANGED <<data, err, ddf, out, store, runs, graphs>>

LazySumStmt ==
  /\ At("lazy_sum")
  /\ Advance
  /\ lazy' = [lazy EXCEPT !.gb_sum = Lazy("sum", SumGraph, ddf)]
  /\ UNCHANGED <<data, err, ddf, out, store, runs, graphs>>

LazyMeanStmt ==
  /\ At("lazy_mean")
  /\ Advance
  /\ lazy' = [lazy EXCEPT !.gb_mean = Lazy("mean", MeanGraph, ddf)]
  /\ UNCHANGED <<data, err, ddf, out, store, runs, graphs>>

\* the concrete result of a lazy result
Value(l) ==
  [kind |-> "value", of |-> l.of,
   val |-> CASE l.of = "frac" -> FracTipped(Table(l.h))
             [] l.of = "sum"  -> GroupSum(Table(l.h))
             [] l.of = "mean" -> GroupMean(Table(l.h))]

\* the results in the reverse of the order of the arguments
DaskComputeReversed(args) == [i \in 1..Len(args) |-> Value(args[Len(args) + 1 - i])]

\* dask.compute(*args): the graphs of the arguments are merged into one
\* graph, in which a key the arguments share is one task; the results come
\* back as a tuple in the order of the arguments
MergedGraph(args) == UNION {args[i].graph : i \in 1..Len(args)}

DaskCompute(args) == [i \in 1..Len(args) |-> Value(args[i])]

\* trip_frac, gb_sum, gb_mean = dask.compute(trip_frac, gb_sum, gb_mean)
DaskComputeStmt ==
  LET args == <<lazy.trip_frac, lazy.gb_sum, lazy.gb_mean>>
      h    == lazy.trip_frac.h
  IN /\ At("dask_compute")
     /\ \A i \in 1..3 : args[i].kind = "lazy" /\ args[i].h = h
     /\ InMemory(h, AllParts(h))
     /\ Advance
     /\ lazy' = [trip_frac |-> DaskCompute(args)[1], gb_sum |-> DaskCompute(args)[2],
                 gb_mean |-> DaskCompute(args)[3]]
     /\ runs' = RunGraph(h, MergedGraph(args), AllParts(h))
     /\ graphs' = Append(graphs, Submitted(h, MergedGraph(args), AllParts(h)))
     /\ UNCHANGED <<data, err, ddf, out, store>>

\* a repartition that merges nothing: the partitions stay as they are
IterChunksNoMerge(parts, unit, size, cur) == parts

\* the partitions repartition(size) makes of partitions each of which holds
\* parts[i] source partitions of unit MiB: consecutive partitions are merged
\* as long as the sum stays within size (cur: what the open chunk holds)
RECURSIVE IterChunks(_, _, _, _)
IterChunks(parts, unit, size, cur) ==
  IF parts = <<>> THEN (IF cur > 0 THEN <<cur>> ELSE <<>>)
  ELSE IF (cur + Head(parts)) * unit <= size
       THEN IterChunks(Tail(parts), unit, size, cur + Head(parts))
       ELSE <<cur>> \o IterChunks(parts, unit, size, 0)

Repartition(h, size) ==
  [AddLayer(h, "repartition", h.dtypes) EXCEPT
     !.parts = IterChunks(h.parts, PartMiB(h), size, 0)]

\* ddf = ddf.repartition("100MiB"): the memory usage of every partition is
\* computed at the call, the new partitions are lazy
RepartitionStmt ==
  /\ At("repartition")
  /\ InMemory(ddf, AllParts(ddf))
  /\ Advance
  /\ ddf' = Repartition(ddf, Notebook[pc].arg)
  /\ runs' = RunGraph(ddf, UsageGraph, AllParts(ddf))
  /\ graphs' = Append(graphs, Submitted(ddf, UsageGraph, AllParts(ddf)))
  /\ UNCHANGED <<data, err, lazy, out, store>>

\* a statement raises: a call to the cluster or to remote storage fails, or
\* the statement cannot run; the kernel stops there and binds nothing
Raise ==
  /\ ~err
  /\ pc <= NStmts
  /\ \/ Notebook[pc].op \in ExternalOps
     \/ ~(Notebook[pc].uses \subseteq names)
     \/ ~Precond(Notebook[pc], ddf)
  /\ err' = TRUE
  /\ UNCHANGED <<data, pc, names, ddf, lazy, out, store, runs, graphs>>

\* ------------------------------------------------------ the cluster's steps
\* the collection the tasks of k read is in memory
DepsInMemory(k) ==
  IF store[k].base = 0 THEN TRUE
  ELSE \A i \in DOMAIN store[store[k].base].status :
         store[store[k].base].status[i] = "memory"

\* a worker starts the task that builds partition i of collection k
TaskStart(k, i) ==
  /\ store[k].status[i] = "waiting"
  /\ DepsInMemory(k)
  /\ store' = [store EXCEPT ![k].status[i] = "processing"]
  /\ UNCHANGED <<data, pc, err, names, ddf, lazy, out, runs, graphs>>

\* the task finishes: the partition is in memory, each layer of the graph
\* of k has run one more task
TaskFinish(k, i) ==
  /\ store[k].status[i] = "processing"
  /\ store' = [store EXCEPT ![k].status[i] = "memory"]
  /\ runs' = [l \in AllLayers |->
                runs[l] + (IF l \in Range(store[k].layers) THEN 1 ELSE 0)]
  /\ UNCHANGED <<data, pc, err, names, ddf, lazy, out, graphs>>

\* the task fails (a remote read fails, the worker runs out of memory), or
\* cannot run because a partition it reads has failed
TaskFail(k, i) ==
  /\ \/ store[k].status[i] = "processing"
     \/ store[k].status[i] = "waiting" /\ ~DepsInMemory(k)
  /\ store' = [store EXCEPT ![k].status[i] = "erred"]
  /\ UNCHANGED <<data, pc, err, names, ddf, lazy, out, runs, graphs>>

TaskStartStep ==
  \E k \in 1..Len(store) : \E i \in DOMAIN store[k].status : TaskStart(k, i)
TaskFinishStep ==
  \E k \in 1..Len(store) : \E i \in DOMAIN store[k].status : TaskFinish(k, i)
TaskFailStep ==
  \E k \in 1..Len(store) : \E i \in DOMAIN store[k].status : TaskFail(k, i)

Next ==
  \/ ImportStmt \/ ClusterStmt \/ GetClientStmt \/ ShowStmt
  \/ ReadCsvStmt \/ ReadParquetStmt \/ DtypesStmt
  \/ ToDatetimeStmt \/ AssignStmt \/ DropDatetimesStmt
  \/ FillnaStmt \/ LowerBoundStmt \/ QuantileStmt \/ UpperBoundStmt \/ LocStmt
  \/ ServiceNamesStmt \/ MapStmt \/ DropLicenseStmt \/ AstypeStmt
  \/ ComputeFracStmt \/ ComputeSumStmt \/ ComputeMeanStmt \/ ComputeNeStmt
  \/ PartitionBytesStmt \/ PersistStmt \/ WaitStmt
  \/ LazyFracStmt \/ LazySumStmt \/ LazyMeanStmt \/ DaskComputeStmt
  \/ RepartitionStmt \/ Raise
  \/ TaskStartStep \/ TaskFinishStep \/ TaskFailStep

Spec == Init /\ [][Next]_vars

TypeOK ==
  /\ pc \in 1..(NStmts + 1)
  /\ err \in BOOLEAN
  /\ \A k \in 1..Len(store) : \A i \in DOMAIN store[k].status :
       store[k].status[i] \in {"waiting", "processing", "memory", "erred"}

\* ------------------------------------------------------------- properties
\* the statement op returns at this step
Returned(op) ==
  /\ ~err
  /\ pc <= NStmts
  /\ Notebook[pc].op = op
  /\ pc' = pc + 1

\* the statement the kernel ran last, once one has returned
LastOp == IF pc > 1 THEN Notebook[pc - 1].op ELSE "none"
LastLine == IF pc > 1 THEN Notebook[pc - 1].line ELSE 0

\* the lines of the graphs submitted so far
SubmittedLines == {graphs[i].line : i \in 1..Len(graphs)}

\* the statuses of the partitions of the collection ddf is built on
StatusOf(h) == {store[h.base].status[i] : i \in DOMAIN store[h.base].status}

\* ddf is bound to a persisted collection, with nothing on top
Persisted(h) == h.base # 0 /\ h.layers = <<>>

\* the calls that execute a graph and return its result
ComputeOps ==
  { "compute_frac", "compute_sum", "compute_mean", "compute_ne",
    "partition_bytes", "dask_compute" }

\* the statements of the read cells and of the sanitization cells
LazyOps ==
  { "read_csv", "read_parquet", "to_datetime", "assign", "drop_datetimes",
    "fillna", "set_lower_bound", "quantile", "upper_bound", "loc",
    "set_service_names", "map", "drop_license" }

\* the layers those statements add
ReadSanitizeLayers == UpstreamLayers \ {"repartition", "astype"}

RECURSIVE OnLazy(_, _)
OnLazy(l, n) ==
  IF n = 0 THEN 0
  ELSE OnLazy(l, n - 1) +
       (IF graphs[n].call # "persist" /\ graphs[n].base = 0 /\ l \in graphs[n].layers
        THEN graphs[n].ntasks \div Cardinality(graphs[n].layers) ELSE 0)

RECURSIVE Materialized(_, _)
Materialized(l, k) ==
  IF k = 0 THEN 0
  ELSE Materialized(l, k - 1) +
       (IF l \in Range(store[k].layers)
        THEN Cardinality({i \in DOMAIN store[k].status : store[k].status[i] = "memory"})
        ELSE 0)

C3_DaskComputeSharesAndOrders ==
  [][Returned("dask_compute") =>
       /\ Len(graphs') = Len(graphs) + 1
       /\ graphs'[Len(graphs')].layers = FracGraph \cup SumGraph \cup MeanGraph
       /\ \A l \in AllLayers :
            runs'[l] - runs[l] =
              (IF l \in FracGraph \cup SumGraph \cup MeanGraph THEN NParts(ddf) ELSE 0)
       /\ lazy'.trip_frac = [kind |-> "value", of |-> "frac", val |-> FracTipped(Table(ddf))]
       /\ lazy'.gb_sum = [kind |-> "value", of |-> "sum", val |-> GroupSum(Table(ddf))]
       /\ lazy'.gb_mean = [kind |-> "value", of |-> "mean", val |-> GroupMean(Table(ddf))]]_vars

\* dask.compute has returned with sums and means for two companies at least
C3_DaskComputeReturned ==
  /\ ~err
  /\ LastOp = "dask_compute"
  /\ lazy.gb_sum.kind = "value"
  /\ Cardinality(DOMAIN lazy.gb_sum.val) >= 2
  /\ runs["gt_0"] = 7 * NFiles

\* a task that builds a partition of a persisted collection finishes
TaskOfPersistFinishes ==
  \E k \in 1..Len(store) : \E i \in DOMAIN store[k].status :
    store[k].status[i] = "processing" /\ store'[k].status[i] = "memory"

\* C4: a statement of the read cells and of the sanitization cells executes
\* no task, submits no graph and persists nothing; the tasks of the read and
\* sanitization layers run only in a step of .compute(), of dask.compute()
\* or of a task of a persisted collection.
C4_ReadAndSanitizeAreLazy ==
  [][/\ (\E op \in LazyOps : Returned(op)) =>
          runs' = runs /\ graphs' = graphs /\ store' = store
     /\ (\E l \in ReadSanitizeLayers : runs'[l] # runs[l]) =>
          (\E op \in ComputeOps : Returned(op)) \/ TaskOfPersistFinishes]_vars

\* the Parquet read and sanitization cells have run and no task of the
\* Parquet pipeline has
C4_ParquetSanitizedNothingRun ==
  /\ ~err
  /\ LastLine = 499
  /\ ddf.layers = <<"read_parquet", "assign", "drop_datetimes", "fillna",
                    "loc_trip_time", "map_service_names", "drop_license">>
  /\ runs["read_parquet"] = 0
  /\ runs["read_csv"] = 4 * NFiles

\* C5: when a statement raises, nothing is bound and nothing is displayed;
\* from then on the kernel runs no statement: the call is not made again,
\* no later statement runs, no graph is submitted.
C5_NoHandlingNoRetry ==
  [][/\ (~err /\ err') => UNCHANGED <<pc, names, ddf, lazy, out, store, runs, graphs>>
     /\ err => UNCHANGED <<pc, err, names, ddf, lazy, out, graphs>>]_vars

\* ddf = ddf.persist() of cell 26 has raised: ddf is still the lazy
\* repartitioned dataframe on top of the persisted Parquet table
C5_PersistRaised ==
  /\ err
  /\ pc <= NStmts
  /\ Notebook[pc].line = 641
  /\ ddf.base = 2
  /\ ddf.layers = <<"repartition">>
  /\ Len(store) = 2

\* C6, as the notebook states it: what (ddf.tips > 0).mean().compute()
\* displays is the mean of the tips column over the rows of the sanitized
\* table (compared as fractions: numerator * count = sum * denominator).
C6_DisplaysMeanOfTips ==
  (~err /\ LastOp = "compute_frac") =>
    LET t == Table(ddf)
    IN /\ out.kind = "frac"
       /\ out.val[1] * Len(t) = SumSeq([i \in 1..Len(t) |-> t[i].tips]) * out.val[2]

\* the rows of the remote dataset the claim's bound keeps
WithinBound ==
  LET q3x4 == Quantile75x4(WithIndex(data))
  IN { i \in 1..Len(data) :
         0 <= data[i].trip_time /\ 8 * data[i].trip_time <= 5 * q3x4 }

\* the rows of the remote dataset that are rows of ddf
RowsOf(h) == LET t == Table(h) IN {t[j].idx : j \in 1..Len(t)}

\* C7: once ddf is filtered, its rows are exactly the rows of the unfiltered
\* table with 0 <= trip_time <= Q3 + 1.5 * (Q3 - 0), each once, Q3 being the
\* 0.75 quantile of trip_time over the unfiltered table.
C7_OutlierFilterExact ==
  "loc_trip_time" \in Range(ddf.lineage) =>
    LET t == Table(ddf)
    IN /\ {t[j].idx : j \in 1..Len(t)} = WithinBound
       /\ Len(t) = Cardinality(WithinBound)
       /\ \A j \in 1..Len(t) : t[j].trip_time = data[t[j].idx].trip_time

\* the filter has kept a row with trip_time 0, removed a row below the lower
\* bound and removed a row above the upper bound
C7_FilterKeptAndRemoved ==
  /\ "loc_trip_time" \in Range(ddf.lineage)
  /\ \E i \in RowsOf(ddf) : data[i].trip_time = 0
  /\ \E i \in (1..Len(data)) \ RowsOf(ddf) : data[i].trip_time < 0
  /\ \E i \in (1..Len(data)) \ RowsOf(ddf) : data[i].trip_time > 0

\* the company of a service code
Company(code) ==
  CASE code = "HV0002" -> "juno"
    [] code = "HV0005" -> "lyft"
    [] code = "HV0003" -> "uber"
    [] code = "HV0004" -> "via"

\* C8: once the codes are mapped and the code column is dropped, every row's
\* service_names is the company of the hvfhs_license_num the row has in the
\* dataset, and ddf has no hvfhs_license_num column.
C8_ServiceNamesAreCompanies ==
  "drop_license" \in Range(ddf.lineage) =>
    LET t == Table(ddf)
    IN /\ "service_names" \in DOMAIN ddf.dtypes
       /\ "hvfhs_license_num" \notin DOMAIN ddf.dtypes
       /\ \A j \in 1..Len(t) :
            /\ t[j].service_names = Company(data[t[j].idx].hvfhs_license_num)
            /\ "hvfhs_license_num" \notin DOMAIN t[j]

\* the sanitized table has rows of juno, of lyft and of uber
C8_ThreeCompanies ==
  /\ "drop_license" \in Range(ddf.lineage)
  /\ LET t == Table(ddf)
     IN {"juno", "lyft", "uber"} \subseteq {t[j].service_names : j \in 1..Len(t)}

\* C9: once the airport fees are filled, no row of ddf has a missing
\* airport_fee: a missing fee of the dataset is 0, any other fee is the fee
\* of the dataset; through every later step of the notebook.
C9_AirportFeeNeverNull ==
  "fillna" \in Range(ddf.lineage) =>
    LET t == Table(ddf)
    IN \A j \in 1..Len(t) :
         /\ t[j].airport_fee # NaN
         /\ t[j].airport_fee =
              (IF data[t[j].idx].airport_fee = NaN THEN 0 ELSE data[t[j].idx].airport_fee)

\* after the filter, the map, the drop, three persists, the repartition and
\* the astype, ddf has a row whose fee was missing and a row whose fee was not
C9_FilledThroughAstype ==
  /\ ~err
  /\ LastLine = 780
  /\ ddf.lineage[Len(ddf.lineage)] = "astype"
  /\ \E i \in RowsOf(ddf) : data[i].airport_fee = NaN
  /\ \E i \in RowsOf(ddf) : data[i].airport_fee # NaN

\* the sanitization layers of a graph, in order
SanitizationOf(layers) ==
  SelectSeq(layers, LAMBDA l : l \in {"assign", "drop_datetimes", "fillna",
                                      "loc_trip_time", "map_service_names",
                                      "drop_license"})

\* the graphs of the analysis call on the persisted collection k
GraphsOn(k, call) ==
  {graphs[i] : i \in {n \in 1..Len(graphs) : graphs[n].base = k /\ graphs[n].call = call}}

Repartitioned ==
  {k \in 1..Len(store) : store[k].layers = <<"repartition">> /\ store[k].base # 0}

\* C11: a collection persisted from a repartition of a persisted table has
\* the rows of that table in fewer partitions, every source partition in
\* one partition; each of the three analyses on it submits the layers of
\* the same analysis on the table before the repartition, in fewer tasks.
C11_RepartitionFewerPartitionsAndTasks ==
  /\ "repartition" \in Range(ddf.lineage) => SumSeq(ddf.parts) = NFiles
  /\ \A k \in Repartitioned :
       /\ store[k].rows = store[store[k].base].rows
       /\ Len(store[k].status) < Len(store[store[k].base].status)
       /\ \A call \in {"compute_frac", "compute_sum", "compute_mean"} :
            \A g \in GraphsOn(k, call) : \A g0 \in GraphsOn(store[k].base, call) :
              g.layers = g0.layers /\ g.ntasks < g0.ntasks

\* the three analyses have run on the Parquet table persisted before and
\* after ddf.repartition("100MiB"), which holds two rows at least
C11_AnalysesAfterRepartition ==
  /\ ~err
  /\ LastLine = 716
  /\ {556, 570, 584, 688, 702, 716} \subseteq SubmittedLines
  /\ 3 \in Repartitioned
  /\ Len(store[3].rows) >= 2
  /\ ddf.parts = <<2, 1>>

\* the dataframe a statement leaves bound to ddf comes from the dataframe
\* h bound before it: the same, a fresh read, h with one more layer, or the
\* persisted h
ComesFrom(h) ==
  \/ ddf' = h
  \/ /\ Notebook[pc].op \in {"read_csv", "read_parquet"}
     /\ Len(ddf'.lineage) = 1
     /\ ddf'.base = 0
  \/ /\ Notebook[pc].op \notin {"read_csv", "read_parquet", "persist"}
     /\ Len(ddf'.lineage) = Len(h.lineage) + 1
     /\ SubSeq(ddf'.lineage, 1, Len(h.lineage)) = h.lineage
     /\ SubSeq(ddf'.layers, 1, Len(h.layers)) = h.layers
     /\ ddf'.base = h.base
  \/ /\ Notebook[pc].op = "persist"
     /\ ddf'.lineage = h.lineage
     /\ ddf'.base = Len(store')
     /\ store'[Len(store')].layers = h.layers
     /\ store'[Len(store')].base = h.base

\* C12: the statement the kernel is at uses only names that are bound; a
\* statement that returns leaves ddf built on the ddf bound before it, a
\* graph it submits is a graph on that ddf, and the lazy results
\* dask.compute is given are built on it.
C12_NamesBoundAndDdfChained ==
  /\ [](pc <= NStmts => Notebook[pc].uses \subseteq names)
  /\ [][(pc' = pc + 1) =>
          /\ Notebook[pc].uses \subseteq names
          /\ names' = names \cup Notebook[pc].binds
          /\ ComesFrom(ddf)
          /\ graphs' # graphs =>
               /\ graphs'[Len(graphs')].base = ddf.base
               /\ Range(ddf.layers) \subseteq graphs'[Len(graphs')].layers
          /\ Notebook[pc].op = "dask_compute" =>
               \A n \in {"trip_frac", "gb_sum", "gb_mean"} : lazy[n].h = ddf]_vars

\* the kernel is at wait(ddf) of the astype cell: wait was imported by the
\* first wait cell, ddf is the persisted cast of the repartitioned table
C12_AtWaitOfAstypeCell ==
  /\ ~err
  /\ pc <= NStmts
  /\ Notebook[pc].line = 780
  /\ {"wait", "dask", "dd", "client", "ddf"} \subseteq names
  /\ ddf.base = 4
  /\ ddf.lineage[Len(ddf.lineage)] = "astype"
  /\ store[4].base = 3

====
